---- MODULE Spec2Model ----
(***************************************************************************)
(* Verification model of the nhk ComfyUI nodes.                            *)
(*                                                                         *)
(* Part 1: the sequence loaders (LoadImageSeries,                          *)
(*         LoadImageSeriesWithPrompts, Load2x2GridSeries,                  *)
(*         Load3x3GridSeries) and the process-wide `random` generator.     *)
(* Part 2: the conditional nodes of conditional_router.py.                 *)
(* Part 3: LoadText.                                                       *)
(***************************************************************************)
EXTENDS Integers, Sequences, FiniteSets, TLC

VARIABLES counters, rng, disk, last, runs, observed, repeated, ncalls,
          exec,
          last_index, repeat_counter, textFiles, loaded, thist, tcalls, cycle,
          selection, tmpl, grid, krita, sora

seriesVars == <<counters, rng, disk, last, runs, observed, repeated, ncalls>>
routerVars == <<exec>>
textVars ==
    <<last_index, repeat_counter, textFiles, loaded, thist, tcalls, cycle>>
nodeVars == <<selection, tmpl, grid, krita, sora>>

(***************************************************************************)
(* Bounds of the model.                                                    *)
(***************************************************************************)
MaxFiles == 2
MaxIndex == 1
MaxSeed == 0
MaxCalls == 3
MaxLoaderCalls == 2

Labels == {"Series001", "Series002"}
FileNames == 1..MaxFiles
Indexes == 0..MaxIndex
Seeds == 0..MaxSeed
Modes == {"single_image", "random"}

\* The directory named by `path`: it may not exist; otherwise `files` is the
\* set of glob matches that carry an allowed image extension (names are
\* ordered as their absolute paths are) and `corrupt` the ones that
\* Image.open cannot read.  The directories considered hold the first n file
\* names, the first of them possibly damaged.
Disks == {[exists |-> FALSE, files |-> {}, corrupt |-> {}]} \cup
         {[exists |-> TRUE, files |-> 1..n, corrupt |-> {}] :
             n \in 0..MaxFiles} \cup
         {[exists |-> TRUE, files |-> 1..n, corrupt |-> {1}] :
             n \in 1..MaxFiles}

(***************************************************************************)
(* The four loader classes; each has its own class-level _counters dict.   *)
(***************************************************************************)
Series == "LoadImageSeries"
WithPrompts == "LoadImageSeriesWithPrompts"
Grid2x2 == "Load2x2GridSeries"
Grid3x3 == "Load3x3GridSeries"
Classes == {Series, WithPrompts, Grid2x2, Grid3x3}

\* Cells per image file: 1 for the plain loaders, 4 and 9 for the grids.
CellsPerImage(cls) ==
    IF cls = Grid2x2 THEN 4 ELSE IF cls = Grid3x3 THEN 9 ELSE 1

\* A label that is not a key of _counters.
NoCounter == -1

(***************************************************************************)
(* image_paths.sort(): the listing in ascending order.                     *)
(***************************************************************************)
RECURSIVE SortedListing(_)
SortedListing(fs) ==
    IF fs = {} THEN <<>>
    ELSE LET m == CHOOSE x \in fs : \A y \in fs : x <= y
         IN <<m>> \o SortedListing(fs \ {m})

(***************************************************************************)
(* The `random` module: a Mersenne Twister shared by the whole process.    *)
(* Its state is the seed it was last seeded with and the number of 32-bit  *)
(* words drawn since.  MTWords[s+1][i] is the top 14 bits of the i-th word *)
(* after random.seed(s).                                                   *)
(***************************************************************************)
MTWords ==
    << <<13835, 6311, 12418, 14585, 6890, 663, 4242, 15818, 8376, 7961>>,
       <<2201, 9325, 13884, 13144, 12513, 1033, 4179, 1931, 8117, 12467>>,
       <<15663, 14141, 15529, 13910, 926, 1500, 1390, 5915, 13688, 2770>>,
       <<3898, 9709, 8916, 2136, 6061, 15006, 9894, 7766, 10251, 9516>>,
       <<3867, 4969, 1690, 11816, 6489, 7845, 2539, 1476, 1089, 324>> >>

WordBits == 14
WordsKnown == 10

RECURSIVE Pow2(_)
Pow2(k) == IF k = 0 THEN 1 ELSE 2 * Pow2(k - 1)

RECURSIVE BitLength(_)
BitLength(n) == IF n = 0 THEN 0 ELSE 1 + BitLength(n \div 2)

\* random.seed(seed)
RandomSeed(seed) == [seed |-> seed, pos |-> 0]

\* getrandbits(k), k <= 14: the top k bits of the next word (the actions keep
\* pos within the tabulated words).
GetRandBits(st, k) ==
    LET p == (st.pos % WordsKnown) + 1
    IN MTWords[st.seed + 1][p] \div Pow2(WordBits - k)

\* _randbelow(n): draw k = n.bit_length() bits until the value is below n.
RECURSIVE RandBelow(_, _)
RandBelow(st, n) ==
    LET r == GetRandBits(st, BitLength(n))
        nx == [st EXCEPT !.pos = st.pos + 1]
    IN IF r < n THEN [value |-> r, rng |-> nx] ELSE RandBelow(nx, n)

\* random.randint(a, b) == a + _randbelow(b - a + 1)
RandInt(st, a, b) ==
    LET d == RandBelow(st, b - a + 1)
    IN [value |-> a + d.value, rng |-> d.rng]

(***************************************************************************)
(* load_image of the four loaders.                                         *)
(***************************************************************************)
\* Variant: reset forgotten.
ResetCounter_Ignored(cs, label, reset) == cs

\* Variant: reset clears the counter of every label.
ResetCounter_AllLabels(cs, label, reset) ==
    IF reset THEN [l \in DOMAIN cs |-> 0] ELSE cs

\* if reset: self._counters[label] = 0
ResetCounter(cs, label, reset) ==
    IF reset THEN [cs EXCEPT ![label] = 0] ELSE cs

\* self._counters.get(label, index)
CounterGet(cs, label, index) ==
    IF cs[label] = NoCounter THEN index ELSE cs[label]

\* Variant: the counter is stored without being advanced.
SelectSingle_NoAdvance(cs, label, index, total) ==
    LET c0 == CounterGet(cs, label, index)
        cur == IF c0 >= total THEN 0 ELSE c0
    IN [current_index |-> cur,
        counters |-> [cs EXCEPT ![label] = cur % total]]

\* single_image branch: the stored counter (or index), wrapped, then advanced.
SelectSingle(cs, label, index, total) ==
    LET c0 == CounterGet(cs, label, index)
        cur == IF c0 >= total THEN 0 ELSE c0
    IN [current_index |-> cur,
        counters |-> [cs EXCEPT ![label] = (cur + 1) % total]]

\* Variant: the generator is not re-seeded before the draw.
SelectRandom_NoSeed(st, seed, total) ==
    RandInt(st, 0, total - 1)

\* random branch: random.seed(seed); random.randint(0, total - 1)
SelectRandom(st, seed, total) ==
    RandInt(RandomSeed(seed), 0, total - 1)

\* The zero tensor returned on every failure path.
Blank == 0

\* Result of the early returns (missing path, no images).
EmptyResult ==
    [image |-> Blank, filename |-> Blank, current_index |-> 0,
     total |-> 0, grid_position |-> 0]

\* Result of the except branch; only LoadImageSeriesWithPrompts keeps
\* current_index there.
FailedResult(cls, cur, total) ==
    [image |-> Blank, filename |-> Blank,
     current_index |-> IF cls = WithPrompts THEN cur ELSE 0,
     total |-> total, grid_position |-> 0]

LoadedResult(cls, listing, cur, total) ==
    LET per == CellsPerImage(cls)
        file == listing[(cur \div per) + 1]
    IN [image |-> file, filename |-> file, current_index |-> cur,
        total |-> total, grid_position |-> cur % per]

\* The whole of load_image for class cls: new counters of the class, new
\* generator state and the returned tuple.
LoadImage(cls, cs, st, dir, mode, index, seed, label, reset) ==
    LET cs1 == ResetCounter(cs, label, reset)
        listing == SortedListing(dir.files)
        total == Len(listing) * CellsPerImage(cls)
    IN IF ~dir.exists \/ listing = <<>>
       THEN [counters |-> cs1, rng |-> st, result |-> EmptyResult]
       ELSE LET sel == IF mode = "single_image"
                       THEN LET s == SelectSingle(cs1, label, index, total)
                            IN [cur |-> s.current_index,
                                counters |-> s.counters, rng |-> st]
                       ELSE LET r == SelectRandom(st, seed, total)
                            IN [cur |-> r.value,
                                counters |-> cs1, rng |-> r.rng]
                selected_path == listing[(sel.cur \div CellsPerImage(cls)) + 1]
            IN [counters |-> sel.counters, rng |-> sel.rng,
                result |-> IF selected_path \notin dir.corrupt
                           THEN LoadedResult(cls, listing, sel.cur, total)
                           ELSE FailedResult(cls, sel.cur, total)]

(***************************************************************************)
(* Observations kept for the properties.                                   *)
(*   runs[label]: the number of LoadImageSeries calls made for the label   *)
(*     when all of them were single_image calls without reset on one       *)
(*     unchanged directory of readable images, the first with index 0      *)
(*     (Broken otherwise);                                                 *)
(*   observed[seed][n]: what the first random-mode LoadImageSeries call    *)
(*     with that seed on a listing of n files returned, when it loaded an  *)
(*     image (NotSeen before);                                             *)
(*   repeated: a random-mode call was made whose seed and listing had been *)
(*     used by an earlier one.                                             *)
(***************************************************************************)
Broken == -1

NextRuns(h, cls, dir, mode, index, label, reset) ==
    IF cls # Series THEN h
    ELSE LET cur == h[label]
             conforming == /\ mode = "single_image"
                           /\ ~reset
                           /\ dir.exists
                           /\ dir.files # {}
                           /\ dir.corrupt = {}
                           /\ cur.n # Broken
                           /\ (cur.n = 0 => index = 0)
                           /\ (cur.n > 0 => dir.files = cur.files)
         IN [h EXCEPT ![label] =
                IF conforming THEN [n |-> cur.n + 1, files |-> dir.files]
                ELSE [n |-> Broken, files |-> {}]]

NotSeen == <<-1, -1>>
RandomValue(c) == <<c.result.current_index, c.result.filename>>
LoadedAtRandom(c) ==
    c.cls = Series /\ c.mode = "random" /\ c.result.image # Blank

NextObserved(obs, c) ==
    IF LoadedAtRandom(c) /\ obs[c.seed][c.result.total] = NotSeen
    THEN [obs EXCEPT ![c.seed][c.result.total] = RandomValue(c)]
    ELSE obs

NoCall ==
    [cls |-> "none", label |-> "none", mode |-> "none", reset |-> FALSE,
     index |-> 0, seed |-> 0, before |-> -1, result |-> EmptyResult]

Call(cls, cap, seeds) ==
    /\ ncalls < cap
    /\ \E mode \in Modes, index \in Indexes, seed \in seeds,
          label \in Labels, reset \in BOOLEAN :
          \E out \in {LoadImage(cls, counters[cls], rng, disk, mode, index,
                               seed, label, reset)} :
          \E call \in {[cls |-> cls, label |-> label, mode |-> mode,
                        reset |-> reset, index |-> index, seed |-> seed,
                        before |-> counters[cls][label],
                        result |-> out.result]} :
             /\ counters' = [counters EXCEPT ![cls] = out.counters]
             /\ rng' = out.rng
             /\ last' = call
             /\ runs' = NextRuns(runs, cls, disk, mode, index, label, reset)
             /\ observed' = NextObserved(observed, call)
             /\ repeated' = (repeated \/
                             (LoadedAtRandom(call) /\
                              observed[seed][out.result.total] # NotSeen))
             /\ ncalls' = ncalls + 1
    /\ UNCHANGED <<disk, routerVars, textVars, nodeVars>>

LoadImageSeries_load_image == Call(Series, MaxCalls, Seeds)

\* The four loaders side by side (one seed: the counters do not depend on it).
Loader_load_image == \E cls \in Classes : Call(cls, MaxLoaderCalls, {0})

\* IS_CHANGED of GeminiAPI and ImageEvaluator draws random.randint(1000, 9999)
\* from the same process-wide generator.
IS_CHANGED_randint ==
    /\ ncalls < MaxCalls
    /\ rng' = RandInt(rng, 1000, 9999).rng
    /\ rng'.pos < WordsKnown
    /\ ncalls' = ncalls + 1
    /\ UNCHANGED <<counters, disk, last, runs, observed, repeated>>
    /\ UNCHANGED <<routerVars, textVars, nodeVars>>

\* Files appear in, vanish from or get damaged in the directory between calls.
DirectoryChanges(cap) ==
    /\ ncalls < cap
    /\ disk' \in Disks \ {disk}
    /\ ncalls' = ncalls + 1
    /\ UNCHANGED <<counters, rng, last, runs, observed, repeated>>
    /\ UNCHANGED <<routerVars, textVars, nodeVars>>

Series_DirectoryChanges == DirectoryChanges(MaxCalls)
Loader_DirectoryChanges == DirectoryChanges(MaxLoaderCalls)

(***************************************************************************)
(* Part 2: conditional_router.py.                                          *)
(*                                                                         *)
(* One execution of a conditional node by the host: the host schedules the *)
(* node with its non-lazy inputs evaluated, asks check_lazy_status which   *)
(* lazy inputs it needs, runs the upstream chains of exactly those, and    *)
(* calls the node's FUNCTION.  A value carries the name of the input chain *)
(* that produced it.                                                       *)
(***************************************************************************)
MaxValue == 2
Values == 1..MaxValue
Messages == {"Quality check failed - stopping workflow", "stop"}

Router == "ConditionalRouter"
RouterDual == "ConditionalRouterDual"
Stop == "ConditionalStop"
Splitter == "ConditionalSplitter"
Nodes == {Router, RouterDual, Stop, Splitter}

\* INPUT_TYPES: the inputs declared "lazy" and the ones evaluated up front.
LazyInputs(node) ==
    IF node = Router THEN {"pass_input", "fail_input"}
    ELSE IF node = RouterDual
         THEN {"pass_input1", "pass_input2", "fail_input1", "fail_input2"}
         ELSE {}

EagerInputs(node) ==
    IF node \in {Stop, Splitter} THEN {"input"} ELSE {}

InputNames(node) == LazyInputs(node) \cup EagerInputs(node)

\* The inputs meant for each value of condition (INPUT_TYPES tooltips).
PassInputs(node) ==
    IF node = Router THEN {"pass_input"}
    ELSE IF node = RouterDual THEN {"pass_input1", "pass_input2"} ELSE {}

FailInputs(node) ==
    IF node = Router THEN {"fail_input"}
    ELSE IF node = RouterDual THEN {"fail_input1", "fail_input2"} ELSE {}

\* An input the host has not evaluated is passed as None.
None == [from |-> "None", value |-> 0]

Range(seq) == {seq[i] : i \in DOMAIN seq}

\* Variant: both branches are requested.
Router_check_lazy_status_Both(condition) == <<"pass_input", "fail_input">>

\* ConditionalRouter.check_lazy_status
Router_check_lazy_status(condition) ==
    IF condition THEN <<"pass_input">> ELSE <<"fail_input">>

\* ConditionalRouter.route
Router_route(condition, in) ==
    IF condition
    THEN [kind |-> "return", outputs |-> <<in["pass_input"]>>,
          info |-> "Using pass_input"]
    ELSE [kind |-> "return", outputs |-> <<in["fail_input"]>>,
          info |-> "Using fail_input"]

\* ConditionalRouterDual.check_lazy_status
RouterDual_check_lazy_status(condition) ==
    IF condition THEN <<"pass_input1", "pass_input2">>
    ELSE <<"fail_input1", "fail_input2">>

\* ConditionalRouterDual.route
RouterDual_route(condition, in) ==
    IF condition
    THEN [kind |-> "return",
          outputs |-> <<in["pass_input1"], in["pass_input2"]>>,
          info |-> "Using pass inputs"]
    ELSE [kind |-> "return",
          outputs |-> <<in["fail_input1"], in["fail_input2"]>>,
          info |-> "Using fail inputs"]

\* Variant: the input is passed on whatever the condition.
Stop_execute_NeverStops(input, condition, stop_message) ==
    [kind |-> "return", outputs |-> <<input>>,
     info |-> "Condition passed - continuing workflow"]

\* ConditionalStop.execute
Stop_execute(input, condition, stop_message) ==
    IF condition
    THEN [kind |-> "return", outputs |-> <<input>>,
          info |-> "Condition passed - continuing workflow"]
    ELSE [kind |-> "raise", outputs |-> <<>>,
          info |-> "ValueError: ConditionalStop: " \o stop_message]

\* ConditionalSplitter.check_lazy_status
Splitter_check_lazy_status(condition) == <<>>

\* ConditionalSplitter.split: (pass_output, fail_output, info)
Splitter_split(input, condition) ==
    IF condition
    THEN [kind |-> "return", outputs |-> <<input, input>>,
          info |-> "Routing to pass_output"]
    ELSE [kind |-> "return", outputs |-> <<input, input>>,
          info |-> "Routing to fail_output"]

check_lazy_status(node, condition) ==
    IF node = Router THEN Router_check_lazy_status(condition)
    ELSE IF node = RouterDual THEN RouterDual_check_lazy_status(condition)
    ELSE Splitter_check_lazy_status(condition)

Function(node, condition, in, stop_message) ==
    IF node = Router THEN Router_route(condition, in)
    ELSE IF node = RouterDual THEN RouterDual_route(condition, in)
    ELSE IF node = Stop THEN Stop_execute(in["input"], condition, stop_message)
    ELSE Splitter_split(in["input"], condition)

Idle ==
    [node |-> "none", phase |-> "idle", condition |-> FALSE,
     stop_message |-> "", upstream |-> <<>>, inputs |-> <<>>,
     requested |-> <<>>, ran |-> {}, result |-> <<>>]

\* The host picks a node up: condition and the non-lazy inputs are evaluated;
\* upstream[n] is what the chain feeding input n produces when it is run.
Host_Schedule ==
    /\ exec.phase \in {"idle", "done"}
    /\ \E node \in Nodes, condition \in BOOLEAN :
       \E up \in [InputNames(node) -> Values],
          msg \in (IF node = Stop THEN Messages ELSE {""}) :
          exec' = [node |-> node, phase |-> "scheduled",
                   condition |-> condition, stop_message |-> msg,
                   upstream |-> up,
                   inputs |-> [n \in InputNames(node) |->
                                  IF n \in EagerInputs(node)
                                  THEN [from |-> n, value |-> up[n]]
                                  ELSE None],
                   requested |-> <<>>, ran |-> EagerInputs(node),
                   result |-> <<>>]
    /\ UNCHANGED <<seriesVars, textVars, nodeVars>>

\* The host calls check_lazy_status of a node that defines it.
Host_check_lazy_status ==
    /\ exec.phase = "scheduled"
    /\ exec.node \in {Router, RouterDual, Splitter}
    /\ exec' = [exec EXCEPT
                  !.phase = "lazy_checked",
                  !.requested = check_lazy_status(exec.node, exec.condition)]
    /\ UNCHANGED <<seriesVars, textVars, nodeVars>>

\* The host runs the upstream chain of every requested input.
Host_EvaluateRequested ==
    /\ exec.phase = "lazy_checked"
    /\ LET req == Range(exec.requested) \cap DOMAIN exec.inputs
       IN exec' = [exec EXCEPT
                     !.phase = "ready",
                     !.inputs = [n \in DOMAIN exec.inputs |->
                                    IF n \in req
                                    THEN [from |-> n,
                                          value |-> exec.upstream[n]]
                                    ELSE exec.inputs[n]],
                     !.ran = exec.ran \cup req]
    /\ UNCHANGED <<seriesVars, textVars, nodeVars>>

\* The host calls FUNCTION: route, execute or split.
Host_Execute ==
    /\ \/ exec.phase = "ready"
       \/ exec.phase = "scheduled" /\ exec.node = Stop
    /\ exec' = [exec EXCEPT
                  !.phase = "done",
                  !.result = Function(exec.node, exec.condition, exec.inputs,
                                      exec.stop_message)]
    /\ UNCHANGED <<seriesVars, textVars, nodeVars>>

(***************************************************************************)
(* Part 3: load_text.py.                                                   *)
(*                                                                         *)
(* One LoadText instance and one configuration key: last_index and         *)
(* repeat_counter are the entries of self.last_index and                   *)
(* self.repeat_counter under that key (NoKey while the key is absent);     *)
(* textFiles is the set of indices of the files that match the pattern.    *)
(***************************************************************************)
MaxTextIndex == 3
MaxSetTo == 2
MaxRepeat == 2
MaxTextCalls == 5

TextIndexes == 1..MaxTextIndex
SetTos == 0..MaxSetTo
RepeatCounts == 1..MaxRepeat

NoKey == -1
NoFile == 0

\* min(file_map.keys()) and max(file_map.keys())
MinKey(file_map) == CHOOSE x \in file_map : \A y \in file_map : x <= y
MaxKey(file_map) == CHOOSE x \in file_map : \A y \in file_map : x >= y

\* if set_to > 0: last_index = set_to; repeat_counter = 0
SetToOverride(st, set_to) ==
    IF set_to > 0 THEN [last_index |-> set_to, repeat_counter |-> 0] ELSE st

\* First use of the configuration: both entries are initialised.
InitTracking(st, file_map, set_to) ==
    [last_index |->
        IF st.last_index = NoKey
        THEN (IF set_to = 0 /\ file_map # {} THEN MinKey(file_map)
              ELSE IF set_to > 0 THEN set_to ELSE 1)
        ELSE st.last_index,
     repeat_counter |->
        IF st.repeat_counter = NoKey THEN 0 ELSE st.repeat_counter]

\* repeat_counter += 1; the target is last_index; once repeat_count is
\* reached the counter is cleared and last_index advanced for the next call.
CountAndAdvance(st, repeat_count) ==
    LET rc == st.repeat_counter + 1
    IN IF rc >= repeat_count
       THEN [target |-> st.last_index, last_index |-> st.last_index + 1,
             repeat_counter |-> 0]
       ELSE [target |-> st.last_index, last_index |-> st.last_index,
             repeat_counter |-> rc]

\* Variant: wrap_around is ignored, the highest file is kept.
HandleMissingTarget_NoWrap(a, file_map, wrap_around) ==
    IF a.target \in file_map THEN a
    ELSE [target |-> MaxKey(file_map), last_index |-> MaxKey(file_map),
          repeat_counter |-> a.repeat_counter]

\* The target is not an existing file: wrap to the lowest index, or stay at
\* the highest one.
HandleMissingTarget(a, file_map, wrap_around) ==
    IF a.target \in file_map THEN a
    ELSE IF wrap_around
         THEN [target |-> MinKey(file_map),
               last_index |-> MinKey(file_map), repeat_counter |-> 1]
         ELSE [target |-> MaxKey(file_map),
               last_index |-> MaxKey(file_map),
               repeat_counter |-> a.repeat_counter]

\* The whole of load_text: the new entries and the returned tuple (file is
\* the index of the file returned as loaded_filepath / current_filename,
\* NoFile when none is; repeat_status is the pair shown as "n/m").
LoadText(st, file_map, auto_increment, set_to, repeat_count, wrap_around) ==
    LET s1 == SetToOverride(st, set_to)
        count == Cardinality(file_map)
    IN IF count = 0
       THEN [last_index |-> s1.last_index,
             repeat_counter |-> s1.repeat_counter,
             result |-> [file |-> NoFile, missing |-> NoFile,
                         available_count |-> 0, repeat_status |-> <<0, 0>>]]
       ELSE IF auto_increment
       THEN LET a == HandleMissingTarget(
                        CountAndAdvance(InitTracking(s1, file_map, set_to),
                                        repeat_count),
                        file_map, wrap_around)
            IN [last_index |-> a.last_index,
                repeat_counter |-> a.repeat_counter,
                result |-> [file |-> a.target, missing |-> NoFile,
                            available_count |-> count,
                            repeat_status |-> <<a.repeat_counter,
                                                repeat_count>>]]
       ELSE LET target == IF set_to > 0 THEN set_to ELSE 1
            IN [last_index |-> s1.last_index,
                repeat_counter |-> s1.repeat_counter,
                result |-> IF target \in file_map
                           THEN [file |-> target, missing |-> NoFile,
                                 available_count |-> count,
                                 repeat_status |-> <<1, 1>>]
                           ELSE [file |-> NoFile, missing |-> target,
                                 available_count |-> count,
                                 repeat_status |-> <<1, 1>>]]

(***************************************************************************)
(* Observation kept for the properties: the run of calls made so far when  *)
(* all of them had auto_increment = True and set_to = 0 and the same       *)
(* repeat_count, wrap_around and non-empty set of files (ok = FALSE once   *)
(* one call differs).  cur is the file the last call returned and len the  *)
(* number of consecutive calls that have returned it; pcur and plen are    *)
(* cur and len before the last call; wrapped tells that the call before    *)
(* the last one went from the highest file back to the lowest.             *)
(***************************************************************************)
NoRun ==
    [ok |-> TRUE, n |-> 0, files |-> {}, r |-> 0, wrap |-> FALSE,
     cur |-> NoFile, len |-> 0, pcur |-> NoFile, plen |-> 0,
     wrapped |-> FALSE]

NextRun(h, file_map, c) ==
    LET file == c.result.file
        conforming == /\ h.ok
                      /\ c.auto_increment
                      /\ c.set_to = 0
                      /\ file_map # {}
                      /\ (h.n > 0 => /\ h.files = file_map
                                     /\ h.r = c.repeat_count
                                     /\ h.wrap = c.wrap_around)
    IN IF ~conforming THEN [NoRun EXCEPT !.ok = FALSE]
       ELSE [ok |-> TRUE, n |-> h.n + 1, files |-> file_map,
             r |-> c.repeat_count, wrap |-> c.wrap_around,
             cur |-> file,
             len |-> IF file = h.cur THEN h.len + 1 ELSE 1,
             pcur |-> h.cur, plen |-> h.len,
             wrapped |-> /\ h.pcur = MaxKey(file_map)
                         /\ h.plen = c.repeat_count
                         /\ h.cur = MinKey(file_map)
                         /\ h.len = 1
                         /\ h.n > 1]

NoLoad ==
    [auto_increment |-> FALSE, set_to |-> 0, repeat_count |-> 0,
     wrap_around |-> FALSE,
     result |-> [file |-> NoFile, missing |-> NoFile, available_count |-> 0,
                 repeat_status |-> <<0, 0>>]]

LoadText_load_text ==
    /\ tcalls < MaxTextCalls
    /\ \E auto_increment \in BOOLEAN, set_to \in SetTos,
          repeat_count \in RepeatCounts, wrap_around \in BOOLEAN :
          \E out \in {LoadText([last_index |-> last_index,
                                repeat_counter |-> repeat_counter],
                               textFiles, auto_increment, set_to,
                               repeat_count, wrap_around)} :
          \E call \in {[auto_increment |-> auto_increment,
                        set_to |-> set_to, repeat_count |-> repeat_count,
                        wrap_around |-> wrap_around,
                        result |-> out.result]} :
             /\ last_index' = out.last_index
             /\ repeat_counter' = out.repeat_counter
             /\ loaded' = call
             /\ thist' = NextRun(thist, textFiles, call)
    /\ tcalls' = tcalls + 1
    /\ UNCHANGED <<textFiles, cycle, seriesVars, routerVars, nodeVars>>

\* Text files are saved to or removed from the folder between calls.
TextFolderChanges ==
    /\ tcalls < MaxTextCalls
    /\ textFiles' \in (SUBSET TextIndexes) \ {textFiles}
    /\ tcalls' = tcalls + 1
    /\ UNCHANGED <<last_index, repeat_counter, loaded, thist, cycle>>
    /\ UNCHANGED <<seriesVars, routerVars, nodeVars>>

(***************************************************************************)
(* A workflow queued over and over with the node left at its defaults for  *)
(* cycling: auto_increment = True, set_to = 0, wrap_around = True, one     *)
(* repeat_count, the files in the folder unchanged.  Before the cycle      *)
(* begins the node may have been run with other settings; cycle.seen is    *)
(* the set of files loaded since the cycle began.                          *)
(***************************************************************************)
MaxEarlierCalls == 1

NoCycle == [on |-> FALSE, r |-> 0, seen |-> {}, earlier |-> 0]

\* The user settles on the cycling inputs.
Cycle_Begin ==
    /\ ~cycle.on
    /\ textFiles # {}
    /\ \E repeat_count \in RepeatCounts :
          cycle' = [cycle EXCEPT !.on = TRUE, !.r = repeat_count]
    /\ UNCHANGED <<last_index, repeat_counter, textFiles, loaded, thist,
                   tcalls>>
    /\ UNCHANGED <<seriesVars, routerVars, nodeVars>>

\* load_text, run by every queued execution (IS_CHANGED returns NaN).
Cycle_load_text ==
    /\ \E auto_increment \in BOOLEAN, set_to \in SetTos,
          repeat_count \in RepeatCounts, wrap_around \in BOOLEAN :
          /\ IF cycle.on
             THEN /\ auto_increment /\ wrap_around /\ set_to = 0
                  /\ repeat_count = cycle.r
             ELSE cycle.earlier < MaxEarlierCalls
          /\ \E out \in {LoadText([last_index |-> last_index,
                                   repeat_counter |-> repeat_counter],
                                  textFiles, auto_increment, set_to,
                                  repeat_count, wrap_around)} :
                /\ last_index' = out.last_index
                /\ repeat_counter' = out.repeat_counter
                /\ loaded' = [auto_increment |-> auto_increment,
                              set_to |-> set_to,
                              repeat_count |-> repeat_count,
                              wrap_around |-> wrap_around,
                              result |-> out.result]
                /\ cycle' = IF cycle.on
                            THEN [cycle EXCEPT
                                    !.seen = @ \cup
                                        ({out.result.file} \ {NoFile})]
                            ELSE [cycle EXCEPT !.earlier = @ + 1]
    /\ UNCHANGED <<textFiles, thist, tcalls>>
    /\ UNCHANGED <<seriesVars, routerVars, nodeVars>>

(***************************************************************************)
(* Part 4: list_selector.py.  Text is a sequence of characters.            *)
(***************************************************************************)
MaxListLen == 4
MaxSelIndex == 3

Newline == "\n"
Space == " "
ListChars == {"a", "b", Space, Newline}
SelDefaults == {<<>>, <<"d">>}
SelIndexes == 0..MaxSelIndex

\* The texts of at most n characters over an alphabet.
Texts(chars, n) == UNION {[1..k -> chars] : k \in 0..n}

\* str.split(sep) for a one-character separator: the pieces between the
\* separators, empty pieces included.
RECURSIVE Split(_, _)
Split(s, sep) ==
    IF \A i \in DOMAIN s : s[i] # sep THEN <<s>>
    ELSE LET i == CHOOSE k \in DOMAIN s :
                      s[k] = sep /\ \A j \in 1..(k - 1) : s[j] # sep
         IN <<SubSeq(s, 1, i - 1)>> \o Split(SubSeq(s, i + 1, Len(s)), sep)

IsWhitespace(ch) == ch \in {Space, Newline}

\* str.strip(): leading and trailing whitespace removed.
Strip(s) ==
    LET keep == {i \in DOMAIN s : ~IsWhitespace(s[i])}
    IN IF keep = {} THEN <<>>
       ELSE SubSeq(s, CHOOSE i \in keep : \A j \in keep : i <= j,
                   CHOOSE i \in keep : \A j \in keep : i >= j)

\* [line.strip() for line in list.split('\n') if line.strip()]
RECURSIVE StrippedNonBlank(_)
StrippedNonBlank(lines) ==
    IF lines = <<>> THEN <<>>
    ELSE LET item == Strip(Head(lines))
         IN (IF item # <<>> THEN <<item>> ELSE <<>>)
            \o StrippedNonBlank(Tail(lines))

ParseItems(list) == StrippedNonBlank(Split(list, Newline))

\* Variant: the index is taken as 0-based.
ListSelector_select_ZeroBased(list, index, batch, default) ==
    LET items == ParseItems(list)
    IN IF batch
       THEN (IF items = <<>> THEN <<default>> ELSE items)
       ELSE IF index = 0 THEN <<default>>
       ELSE IF index < Len(items) THEN <<items[index + 1]>>
       ELSE IF items # <<>> THEN <<items[Len(items)]>>
       ELSE <<default>>

\* ListSelector.select: the returned list of values.
ListSelector_select(list, index, batch, default) ==
    LET items == ParseItems(list)
    IN IF batch
       THEN (IF items = <<>>
             THEN (IF default # <<>> THEN <<default>> ELSE << <<>> >>)
             ELSE items)
       ELSE IF index = 0 THEN <<default>>
       ELSE LET list_index == index - 1
            IN IF list_index < Len(items) THEN <<items[list_index + 1]>>
               ELSE IF items # <<>> THEN <<items[Len(items)]>>
               ELSE <<default>>

NoSelect ==
    [called |-> FALSE, list |-> <<>>, index |-> 0, batch |-> FALSE,
     default |-> <<>>, value |-> <<>>]

\* The widget values of a queued execution.
SelectorInit ==
    \E list \in Texts(ListChars, MaxListLen), index \in SelIndexes,
       batch \in BOOLEAN, default \in SelDefaults :
       selection = [NoSelect EXCEPT !.list = list, !.index = index,
                                    !.batch = batch, !.default = default]

\* The host calls select with the widget values.
Selector_select ==
    /\ ~selection.called
    /\ selection' = [selection EXCEPT
                       !.called = TRUE,
                       !.value = ListSelector_select(
                                     selection.list, selection.index,
                                     selection.batch, selection.default)]
    /\ UNCHANGED <<seriesVars, routerVars, textVars>>
    /\ UNCHANGED <<tmpl, grid, krita, sora>>

(***************************************************************************)
(* Part 5: text_template.py and text_template_extended.py.                 *)
(***************************************************************************)
MaxTemplateLen == 4

TemplateChars == {"[", "]", "a", "b", "e"}
\* What is connected to a placeholder input; an unconnected one is "".
TemplateValues == {<<>>, <<"x">>, <<"[", "b", "]">>}
ExtendedValues == {<<>>, <<"y">>}

\* s starts with the text old.
StartsWith(s, old) ==
    Len(s) >= Len(old) /\ SubSeq(s, 1, Len(old)) = old

\* str.replace(old, new) for a non-empty old: the occurrences of old, found
\* from the left and not overlapping, are replaced by new.
RECURSIVE Replace(_, _, _)
Replace(s, old, new) ==
    IF Len(s) < Len(old) THEN s
    ELSE IF StartsWith(s, old)
         THEN new \o Replace(SubSeq(s, Len(old) + 1, Len(s)), old, new)
         ELSE <<Head(s)>> \o Replace(Tail(s), old, new)

\* TextTemplate.process_template
TextTemplate_process_template(template, a, b, c, d) ==
    IF template = <<>> THEN <<>>
    ELSE Replace(Replace(Replace(Replace(template,
                                         <<"[", "a", "]">>, a),
                                 <<"[", "b", "]">>, b),
                         <<"[", "c", "]">>, c),
                 <<"[", "d", "]">>, d)

\* Variant: the extended node looks for {letter}.
ExtendedToken_Braces(letter) == <<"{", letter, "}">>

\* f"[{letter}]"
ExtendedToken(letter) == <<"[", letter, "]">>

\* The loop of TextTemplateExtended.process_template over the pairs
\* (letter, value), from pair number i on.
RECURSIVE ReplaceEach(_, _, _)
ReplaceEach(result, pairs, i) ==
    IF i > Len(pairs) THEN result
    ELSE ReplaceEach(Replace(result, ExtendedToken(pairs[i][1]),
                             pairs[i][2]),
                     pairs, i + 1)

\* TextTemplateExtended.process_template
TextTemplateExtended_process_template(template, a, b, c, d, e, f, g, h) ==
    IF template = <<>> THEN <<>>
    ELSE ReplaceEach(template,
                     << <<"a", a>>, <<"b", b>>, <<"c", c>>, <<"d", d>>,
                        <<"e", e>>, <<"f", f>>, <<"g", g>>, <<"h", h>> >>,
                     1)

\* One template and one set of connected inputs, given to a TextTemplate
\* node and to a TextTemplateExtended node; c, d, f, g and h are not
\* connected.
NoTemplate ==
    [called |-> FALSE, calledExtended |-> FALSE, template |-> <<>>,
     a |-> <<>>, b |-> <<>>, e |-> <<>>,
     output |-> <<>>, extended |-> <<>>]

TemplateInit ==
    \E template \in Texts(TemplateChars, MaxTemplateLen),
       a \in TemplateValues, b \in TemplateValues, e \in ExtendedValues :
       tmpl = [NoTemplate EXCEPT !.template = template,
                                 !.a = a, !.b = b, !.e = e]

Template_process_template ==
    /\ ~tmpl.called
    /\ tmpl' = [tmpl EXCEPT
                  !.called = TRUE,
                  !.output = TextTemplate_process_template(
                                 tmpl.template, tmpl.a, tmpl.b, <<>>, <<>>)]
    /\ UNCHANGED <<seriesVars, routerVars, textVars>>
    /\ UNCHANGED <<selection, grid, krita, sora>>

Extended_process_template ==
    /\ ~tmpl.calledExtended
    /\ tmpl' = [tmpl EXCEPT
                  !.calledExtended = TRUE,
                  !.extended = TextTemplateExtended_process_template(
                                   tmpl.template, tmpl.a, tmpl.b, <<>>, <<>>,
                                   tmpl.e, <<>>, <<>>, <<>>)]
    /\ UNCHANGED <<seriesVars, routerVars, textVars>>
    /\ UNCHANGED <<selection, grid, krita, sora>>
(***************************************************************************)
(* Part 6: extract_grid_panel.py.  An IMAGE is a batch of pictures of one  *)
(* width and height.                                                       *)
(***************************************************************************)
MaxPanelLen == 3
MaxGrid == 2

PanelChars == {"a", "b", "B", "0", "1", "2", Space}
GridSizes == 1..MaxGrid
Separators == {0, 1}
GridImages ==
    {[batch |-> n, width |-> w, height |-> h] :
        n \in {1, 2}, w \in {4, 5}, h \in {4}}

Letters == {"a", "b"}
Capitals == {"B"}
Digits == {"0", "1", "2"}

\* str.lower() and str.upper(), character by character.
LowerChar(ch) == IF ch = "B" THEN "b" ELSE ch
UpperChar(ch) == IF ch = "a" THEN "A" ELSE IF ch = "b" THEN "B" ELSE ch
Lower(s) == [i \in DOMAIN s |-> LowerChar(s[i])]
Upper(s) == [i \in DOMAIN s |-> UpperChar(s[i])]

\* char.isalpha()
IsAlpha(ch) == ch \in Letters \cup Capitals

\* ord(ch) - ord('a') for a lower-case letter.
OrdFromA(ch) == IF ch = "a" THEN 0 ELSE 1

DigitValue(ch) == IF ch = "0" THEN 0 ELSE IF ch = "1" THEN 1 ELSE 2

RECURSIVE Decimal(_)
Decimal(ds) ==
    IF ds = <<>> THEN 0
    ELSE 10 * Decimal(SubSeq(ds, 1, Len(ds) - 1)) + DigitValue(ds[Len(ds)])

\* int(text): surrounding whitespace is ignored; anything but a non-empty
\* run of digits raises ValueError.
ParseInt(text) ==
    LET t == Strip(text)
    IN IF t # <<>> /\ \A i \in DOMAIN t : t[i] \in Digits
       THEN [ok |-> TRUE, value |-> Decimal(t)]
       ELSE [ok |-> FALSE, value |-> 0]

\* The loop over the characters of panel: col_letter is the leading run of
\* letters, row_str everything from the first other character on.
SplitPanel(panel) ==
    LET others == {i \in DOMAIN panel : ~IsAlpha(panel[i])}
        first == IF others = {} THEN Len(panel) + 1
                 ELSE CHOOSE i \in others : \A j \in others : i <= j
    IN [col_letter |-> SubSeq(panel, 1, first - 1),
        row_str |-> SubSeq(panel, first, Len(panel))]

\* round(n / d) as Python rounds a float: to the nearest integer, a tie to
\* the even one (n >= 0, d > 0; the quotients met here are exact in binary
\* or not ties).
RoundHalfEven(n, d) ==
    LET q == n \div d
        r == n % d
    IN IF 2 * r < d THEN q
       ELSE IF 2 * r > d THEN q + 1
       ELSE IF q % 2 = 0 THEN q ELSE q + 1

Min(x, y) == IF x <= y THEN x ELSE y

\* The crop box along one axis: size is the image's extent, count the number
\* of cells, idx the cell.
CropSpan(size, count, idx, separator_width) ==
    LET cell == size - separator_width * (count - 1)
        lo == RoundHalfEven(idx * cell + idx * separator_width * count,
                            count)
        hi == Min(RoundHalfEven(lo * count + cell, count), size)
    IN <<lo, hi>>

NoBox == [left |-> 0, top |-> 0, right |-> 0, bottom |-> 0]

\* (image, panel, 0, 0): the image returned is the input itself.
PanelUnchanged(panel) ==
    [kind |-> "return", image |-> "input", box |-> NoBox,
     panel_name |-> panel, width |-> 0, height |-> 0]

\* not (col_idx < 0 or col_idx >= columns)
ColumnInRange(col_idx, columns) == ~(col_idx < 0 \/ col_idx >= columns)

\* ExtractGridPanel.extract_panel
ExtractGridPanel_extract_panel(image, rows, columns, panel0, sep) ==
    LET panel == Lower(Strip(panel0))
        parts == SplitPanel(panel)
        row == ParseInt(parts.row_str)
        col_idx == OrdFromA(parts.col_letter[Len(parts.col_letter)])
        row_idx == row.value - 1
    IN IF Len(panel) < 2 THEN PanelUnchanged(panel)
       ELSE IF parts.col_letter = <<>> \/ parts.row_str = <<>>
            THEN PanelUnchanged(panel)
       ELSE IF ~row.ok THEN PanelUnchanged(panel)
       ELSE IF row_idx < 0 \/ row_idx >= rows THEN PanelUnchanged(panel)
       ELSE IF ~ColumnInRange(col_idx, columns) THEN PanelUnchanged(panel)
       ELSE IF image.batch # 1
            \* tensor2pil: squeeze() leaves a batch of several pictures
            \* four-dimensional, which Image.fromarray rejects.
            THEN [kind |-> "raise", image |-> "none", box |-> NoBox,
                  panel_name |-> <<>>, width |-> 0, height |-> 0]
       ELSE LET x == CropSpan(image.width, columns, col_idx, sep)
                y == CropSpan(image.height, rows, row_idx, sep)
            IN [kind |-> "return", image |-> "cropped",
                box |-> [left |-> x[1], top |-> y[1],
                         right |-> x[2], bottom |-> y[2]],
                panel_name |-> Upper(panel),
                width |-> x[2] - x[1], height |-> y[2] - y[1]]

NoPanel ==
    [called |-> FALSE,
     image |-> [batch |-> 1, width |-> 4, height |-> 4],
     rows |-> 1, columns |-> 1, panel |-> <<>>, separator_width |-> 0,
     result |-> PanelUnchanged(<<>>)]

PanelInit ==
    \E image \in GridImages, rows \in GridSizes, columns \in GridSizes,
       panel \in Texts(PanelChars, MaxPanelLen),
       separator_width \in Separators :
       grid = [NoPanel EXCEPT !.image = image, !.rows = rows,
                              !.columns = columns, !.panel = panel,
                              !.separator_width = separator_width]

Panel_extract_panel ==
    /\ ~grid.called
    /\ grid' = [grid EXCEPT
                  !.called = TRUE,
                  !.result = ExtractGridPanel_extract_panel(
                                 grid.image, grid.rows, grid.columns,
                                 grid.panel, grid.separator_width)]
    /\ UNCHANGED <<seriesVars, routerVars, textVars>>
    /\ UNCHANGED <<selection, tmpl, krita, sora>>
(***************************************************************************)
(* Part 7: edit_with_krita.py.                                             *)
(*                                                                         *)
(* An IMAGE is a batch of pictures, each reduced to one sample, a float in *)
(* [0, 1] counted in units of 1/510.  krita.dir is the number of files in   *)
(* the edit directory and krita.before that number when the current call   *)
(* began; krita.file is the file written last (the only one read again):   *)
(* the sample it holds and whether it was saved again after the node wrote *)
(* it; written, launched, notified and slept count what the current call   *)
(* has done.                                                               *)
(***************************************************************************)
MaxBatch == 2
MaxKritaCalls == 2

Samples == {0, 255}
KritaImages == UNION {[1..n -> Samples] : n \in 1..MaxBatch}

\* _save_image then _load_image: float -> uint8 (truncated) -> float.
ThroughPng(sample) == 2 * (sample \div 2)

NoEdit ==
    [pc |-> "idle", calls |-> 0, image |-> <<>>, enabled |-> FALSE,
     notify |-> FALSE, i |-> 0, output |-> <<>>, result |-> <<>>,
     raised |-> FALSE, dir |-> 0, before |-> 0,
     file |-> [sample |-> 0, edited |-> FALSE], written |-> 0,
     launched |-> 0, notified |-> 0, slept |-> 0]

\* Variant: the enabled switch is not looked at.
PassThrough_Never(enabled) == FALSE

\* if not enabled: return (image,)
PassThrough(enabled) == ~enabled

\* edit_image is entered; a disabled node returns at once.
Krita_edit_image ==
    /\ krita.pc \in {"idle", "done"}
    /\ krita.calls < MaxKritaCalls
    /\ \E image \in KritaImages, enabled \in BOOLEAN, notify \in BOOLEAN :
          LET entered == [krita EXCEPT
                            !.calls = @ + 1, !.image = image,
                            !.enabled = enabled, !.notify = notify,
                            !.i = 0, !.output = <<>>, !.result = <<>>,
                            !.raised = FALSE, !.before = krita.dir,
                            !.written = 0, !.launched = 0,
                            !.notified = 0, !.slept = 0]
          IN krita' = IF PassThrough(enabled)
                      THEN [entered EXCEPT !.pc = "done", !.result = image]
                      ELSE [entered EXCEPT !.pc = "save", !.i = 1]
    /\ UNCHANGED <<seriesVars, routerVars, textVars>>
    /\ UNCHANGED <<selection, tmpl, grid, sora>>

\* _edit_single_image: the picture is written to the edit directory.
Krita_save_image ==
    /\ krita.pc = "save"
    /\ krita' = [krita EXCEPT
                   !.pc = "launch",
                   !.dir = @ + 1,
                   !.file = [sample |-> ThroughPng(krita.image[krita.i]),
                             edited |-> FALSE],
                   !.written = @ + 1]
    /\ UNCHANGED <<seriesVars, routerVars, textVars>>
    /\ UNCHANGED <<selection, tmpl, grid, sora>>

\* _launch_krita: the first command that can be started is started (none
\* may be installed); then the notification, when asked for.
Krita_launch_krita ==
    /\ krita.pc = "launch"
    /\ \E found \in BOOLEAN :
          krita' = [krita EXCEPT
                      !.pc = "wait",
                      !.launched = IF found THEN @ + 1 ELSE @,
                      !.notified = IF krita.notify THEN @ + 1 ELSE @]
    /\ UNCHANGED <<seriesVars, routerVars, textVars>>
    /\ UNCHANGED <<selection, tmpl, grid, sora>>

\* The user saves the file from the editor.
Krita_UserSaves ==
    /\ krita.pc = "wait"
    /\ ~krita.file.edited
    /\ \E sample \in {ThroughPng(x) : x \in Samples} :
          krita' = [krita EXCEPT
                      !.file = [sample |-> sample, edited |-> TRUE]]
    /\ UNCHANGED <<seriesVars, routerVars, textVars>>
    /\ UNCHANGED <<selection, tmpl, grid, sora>>

\* _wait_for_modification: the loop ends when the file was saved again
\* (after a last sleep), when the timeout has passed, or when the host
\* interrupts the run.
Krita_wait_for_modification ==
    /\ krita.pc = "wait"
    /\ \/ /\ krita.file.edited
          /\ krita' = [krita EXCEPT !.pc = "load", !.slept = 1]
       \/ /\ ~krita.file.edited
          /\ \E timed_out \in BOOLEAN :
                krita' = [krita EXCEPT
                            !.pc = IF timed_out THEN "load" ELSE "wait",
                            !.slept = 1]
       \/ krita' = [krita EXCEPT !.pc = "done", !.raised = TRUE]
    /\ UNCHANGED <<seriesVars, routerVars, textVars>>
    /\ UNCHANGED <<selection, tmpl, grid, sora>>

\* _load_image; after the last picture torch.cat joins the batch.
Krita_load_image ==
    /\ krita.pc = "load"
    /\ LET out == Append(krita.output, krita.file.sample)
       IN krita' = IF krita.i < Len(krita.image)
                   THEN [krita EXCEPT !.pc = "save", !.i = @ + 1,
                                      !.output = out]
                   ELSE [krita EXCEPT !.pc = "done", !.output = out,
                                      !.result = out]
    /\ UNCHANGED <<seriesVars, routerVars, textVars>>
    /\ UNCHANGED <<selection, tmpl, grid, sora>>
(***************************************************************************)
(* Part 8: sora_video_gen.py.                                              *)
(*                                                                         *)
(* One generate_video call at a time, step by step.  sora.http is the log  *)
(* of the HTTP requests of the current call, each with the job status the  *)
(* node knew when it sent the request (status requests beyond MaxPolls     *)
(* are not logged); sora.saved counts the files of the current call in the *)
(* output directory, sora.tmp the temporary reference images left on disk; *)
(* sora.tick is the parity of the number of 2-second sleeps.               *)
(***************************************************************************)
MaxPolls == 2
MaxSoraCalls == 2

Statuses == {"queued", "in_progress", "completed", "failed"}
Prompts == {<<>>, <<Space>>, <<"a">>}
NoStatus == "none"

\* while video["status"] in ("in_progress", "queued")
StillRunning(status) == status \in {"in_progress", "queued"}

\* Variant: a failed job is not told from a completed one.
JobFailed_Ignored(status) == FALSE

\* if video["status"] == "failed"
JobFailed(status) == status = "failed"

\* not prompt or not prompt.strip()
PromptEmpty(prompt) == prompt = <<>> \/ Strip(prompt) = <<>>

NoJob ==
    [pc |-> "idle", calls |-> 0, api_key |-> FALSE, prompt |-> <<>>,
     input_image |-> FALSE, status |-> NoStatus, http |-> <<>>,
     saved |-> 0, tmp |-> 0, tick |-> 0, result |-> "none"]

Raise(job, error) == [job EXCEPT !.pc = "done", !.result = error]

Request(kind, status) == [kind |-> kind, at |-> status]

StatusRequests(http) ==
    Cardinality({i \in DOMAIN http : http[i].kind = "GET status"})

\* generate_video is entered: the API key and the prompt are checked.
Sora_generate_video ==
    /\ sora.pc \in {"idle", "done"}
    /\ sora.calls < MaxSoraCalls
    /\ \E api_key \in BOOLEAN, prompt \in Prompts, input_image \in BOOLEAN :
          LET entered == [sora EXCEPT
                            !.calls = @ + 1, !.api_key = api_key,
                            !.prompt = prompt, !.input_image = input_image,
                            !.status = NoStatus, !.http = <<>>,
                            !.saved = 0, !.tick = 0, !.result = "none"]
          IN sora' = IF ~api_key THEN Raise(entered, "ValueError")
                     ELSE IF PromptEmpty(prompt)
                          THEN Raise(entered, "ValueError")
                     ELSE [entered EXCEPT !.pc = "create"]
    /\ UNCHANGED <<seriesVars, routerVars, textVars>>
    /\ UNCHANGED <<selection, tmpl, grid, krita>>

\* The reference image, if any, is written to a temporary file; the job is
\* created by a POST.  The request may fail to connect (the clean-up of the
\* temporary file is then skipped), be answered by an HTTP error, or by the
\* job with its first status.
Sora_create_job ==
    /\ sora.pc = "create"
    /\ LET sent == [sora EXCEPT
                       !.http = Append(@, Request("POST", NoStatus))]
       IN \/ sora' = Raise([sent EXCEPT
                               !.tmp = IF sora.input_image THEN 1 ELSE @],
                           "RuntimeError")
          \/ sora' = Raise(sent, "RuntimeError")
          \/ \E status \in Statuses :
                sora' = [sent EXCEPT !.pc = "poll", !.status = status]
    /\ UNCHANGED <<seriesVars, routerVars, textVars>>
    /\ UNCHANGED <<selection, tmpl, grid, krita>>

\* One turn of the polling loop: sleep, GET the job, read its status.
Sora_poll ==
    /\ sora.pc = "poll"
    /\ StillRunning(sora.status)
    /\ LET sent == [sora EXCEPT
                       !.tick = 1 - @,
                       !.http = IF StatusRequests(@) < MaxPolls
                                THEN Append(@, Request("GET status",
                                                       sora.status))
                                ELSE @]
       IN \/ sora' = Raise(sent, "RuntimeError")
          \/ \E status \in Statuses : sora' = [sent EXCEPT !.status = status]
    /\ UNCHANGED <<seriesVars, routerVars, textVars>>
    /\ UNCHANGED <<selection, tmpl, grid, krita>>

\* The loop has ended: a failed job raises, any other goes on to download.
Sora_check_failure ==
    /\ sora.pc = "poll"
    /\ ~StillRunning(sora.status)
    /\ sora' = IF JobFailed(sora.status) THEN Raise(sora, "RuntimeError")
               ELSE [sora EXCEPT !.pc = "download"]
    /\ UNCHANGED <<seriesVars, routerVars, textVars>>
    /\ UNCHANGED <<selection, tmpl, grid, krita>>

\* GET .../content
Sora_download ==
    /\ sora.pc = "download"
    /\ LET sent == [sora EXCEPT
                       !.http = Append(@, Request("GET content",
                                                  sora.status))]
       IN \/ sora' = Raise(sent, "RuntimeError")
          \/ sora' = [sent EXCEPT !.pc = "save"]
    /\ UNCHANGED <<seriesVars, routerVars, textVars>>
    /\ UNCHANGED <<selection, tmpl, grid, krita>>

\* The content is written to the output directory and returned as a video;
\* the file may not open, or the stream may break after it was opened.
Sora_save ==
    /\ sora.pc = "save"
    /\ \/ sora' = Raise(sora, "RuntimeError")
       \/ sora' = Raise([sora EXCEPT !.saved = @ + 1], "RuntimeError")
       \/ sora' = [sora EXCEPT !.pc = "done", !.saved = @ + 1,
                                !.result = "video"]
    /\ UNCHANGED <<seriesVars, routerVars, textVars>>
    /\ UNCHANGED <<selection, tmpl, grid, krita>>

SelectorAtRest == selection = NoSelect

NodesInit ==
    /\ SelectorAtRest
    /\ tmpl = NoTemplate
    /\ grid = NoPanel
    /\ krita = NoEdit
    /\ sora = NoJob

\* The state after the node classes are loaded and instantiated.  The
\* directory contents are arbitrary; the generator starts from one state and
\* is moved on by IS_CHANGED_randint.
SeriesInit ==
    /\ counters = [c \in Classes |-> [l \in Labels |-> NoCounter]]
    /\ rng = RandomSeed(0)
    /\ disk \in Disks
    /\ last = NoCall
    /\ runs = [l \in Labels |-> [n |-> 0, files |-> {}]]
    /\ observed = [s \in Seeds |-> [n \in 1..MaxFiles |-> NotSeen]]
    /\ repeated = FALSE
    /\ ncalls = 0

RouterInit == exec = Idle

TextInit ==
    /\ last_index = NoKey
    /\ repeat_counter = NoKey
    /\ textFiles \in SUBSET TextIndexes
    /\ loaded = NoLoad
    /\ thist = NoRun
    /\ tcalls = 0
    /\ cycle = NoCycle

\* Each specification explores one group of nodes; the environment of the
\* other groups is held at one value.
SeriesAtRest == SeriesInit /\ ~disk.exists
TextAtRest == TextInit /\ textFiles = {}

InitSeries == SeriesInit /\ RouterInit /\ TextAtRest /\ NodesInit
InitRouter == SeriesAtRest /\ RouterInit /\ TextAtRest /\ NodesInit
InitText == SeriesAtRest /\ RouterInit /\ TextInit /\ NodesInit
GroupsAtRest == SeriesAtRest /\ RouterInit /\ TextAtRest
InitSelector ==
    /\ GroupsAtRest
    /\ SelectorInit /\ tmpl = NoTemplate /\ grid = NoPanel
    /\ krita = NoEdit /\ sora = NoJob

vars == <<seriesVars, routerVars, textVars, nodeVars>>

NextSeries ==
    \/ LoadImageSeries_load_image
    \/ IS_CHANGED_randint
    \/ Series_DirectoryChanges

SpecSeries == InitSeries /\ [][NextSeries]_vars

NextLoaders ==
    \/ Loader_load_image
    \/ Loader_DirectoryChanges

SpecLoaders == InitSeries /\ [][NextLoaders]_vars

NextRouter ==
    \/ Host_Schedule
    \/ Host_check_lazy_status
    \/ Host_EvaluateRequested
    \/ Host_Execute

SpecRouter == InitRouter /\ [][NextRouter]_vars

NextText ==
    \/ LoadText_load_text
    \/ TextFolderChanges

SpecText == InitText /\ [][NextText]_vars

NextSelector == Selector_select

InitTemplate ==
    /\ GroupsAtRest
    /\ SelectorAtRest /\ TemplateInit /\ grid = NoPanel
    /\ krita = NoEdit /\ sora = NoJob

NextTemplate ==
    \/ Template_process_template
    \/ Extended_process_template

SpecTemplate == InitTemplate /\ [][NextTemplate]_vars

InitPanel ==
    /\ GroupsAtRest
    /\ SelectorAtRest /\ tmpl = NoTemplate /\ PanelInit
    /\ krita = NoEdit /\ sora = NoJob

NextPanel == Panel_extract_panel

SpecPanel == InitPanel /\ [][NextPanel]_vars

InitKrita == GroupsAtRest /\ NodesInit

NextKrita ==
    \/ Krita_edit_image
    \/ Krita_save_image
    \/ Krita_launch_krita
    \/ Krita_UserSaves
    \/ Krita_wait_for_modification
    \/ Krita_load_image

SpecKrita == InitKrita /\ [][NextKrita]_vars

InitSora == GroupsAtRest /\ NodesInit

NextSora ==
    \/ Sora_generate_video
    \/ Sora_create_job
    \/ Sora_poll
    \/ Sora_check_failure
    \/ Sora_download
    \/ Sora_save

SpecSora == InitSora /\ [][NextSora]_vars

\* A call that has been entered keeps running: each of its steps is taken
\* when it stays possible (requests are taken to be answered or to fail).
SpecSoraLive ==
    /\ SpecSora
    /\ WF_vars(Sora_create_job) /\ WF_vars(Sora_poll)
    /\ WF_vars(Sora_check_failure) /\ WF_vars(Sora_download)
    /\ WF_vars(Sora_save)

SpecSelector == InitSelector /\ [][NextSelector]_vars

NextTextCycle ==
    \/ Cycle_Begin
    \/ Cycle_load_text

\* Every queued execution calls load_text: the call is never postponed for
\* ever.
SpecTextCycle ==
    InitText /\ [][NextTextCycle]_vars /\ WF_vars(Cycle_load_text)

(***************************************************************************)
(* Properties of the sequence loaders.                                     *)
(***************************************************************************)
SeriesCall == last.cls = Series
SingleCall == SeriesCall /\ last.mode = "single_image"

\* C1: in single_image mode, on an unchanged directory of N >= 1 images,
\* starting with no stored counter and index 0, the k-th call without reset
\* for a label returns current_index (k - 1) mod N: 0, 1, ..., N-1, 0, ...
C1_CursorAdvancesAndWraps ==
    \A l \in Labels :
        (SeriesCall /\ last.label = l /\ runs[l].n >= 1)
        => last.result.current_index =
               (runs[l].n - 1) % Cardinality(runs[l].files)

\* The third call on a directory of two images is back at index 0.
C1_Witness ==
    \E l \in Labels :
        /\ SeriesCall /\ last.label = l
        /\ runs[l].n = 3 /\ Cardinality(runs[l].files) = 2
        /\ last.result.current_index = 0

\* C2: a load_image call for one label of one class leaves the stored
\* counter of every other label, and of every other class, as it was.
C2_OtherLabelsUntouched ==
    [][\A c \in Classes, l \in Labels :
          (last'.cls # c \/ last'.label # l)
          => counters'[c][l] = counters[c][l]]_vars

\* A call with reset for one label while the other label of the same class
\* holds an advanced counter.
C2_Witness ==
    \E c \in Classes, l \in Labels, o \in Labels :
        /\ o # l /\ last.cls = c /\ last.label = l /\ last.reset
        /\ counters[c][o] = 1

\* C3: a single_image call with reset on N >= 1 images returns index 0 and
\* leaves the counter of the label at 1 mod N.
C3_ResetRestarts ==
    (SingleCall /\ last.reset /\ last.result.total >= 1)
    => /\ last.result.current_index = 0
       /\ counters[Series][last.label] = 1 % last.result.total

\* A reset call with index 1 for a label whose stored counter was 1, on two
\* images.
C3_Witness ==
    /\ SingleCall /\ last.reset /\ last.result.total = 2
    /\ last.before = 1 /\ last.index = 1
    /\ last.result.current_index = 0

\* C4: every single_image call without reset whose index is within the
\* listing (and whose image loads) returns that index as current_index.
C4_ReturnsIndexArgument ==
    (SingleCall /\ ~last.reset /\ last.result.image # Blank
        /\ last.index < last.result.total)
    => last.result.current_index = last.index

\* C5: a random-mode call that loads an image returns the same current_index
\* and filename as the first such call with the same seed on the same
\* listing, whatever happened in between.
C5_RandomDeterministicInSeed ==
    LoadedAtRandom(last)
    => observed[last.seed][last.result.total] = RandomValue(last)

\* A seed was used a second time on the same listing.
C5_Witness ==
    /\ repeated /\ LoadedAtRandom(last) /\ last.result.total = 2
    /\ last.index = 1 /\ last.before = 1

(***************************************************************************)
(* Properties of the conditional nodes.                                    *)
(***************************************************************************)
Done(node) == exec.phase = "done" /\ exec.node = node

\* The input chains whose values appear among the outputs.
Sources(result) == {o.from : o \in Range(result.outputs)}

SelectedInputs ==
    IF exec.condition THEN PassInputs(exec.node) ELSE FailInputs(exec.node)

\* C6: for ConditionalRouter and ConditionalRouterDual the names returned by
\* check_lazy_status are exactly the inputs whose values route returns: the
\* pass input(s) when condition is True, the fail input(s) when it is False;
\* the chain of the other branch is never run and never appears in the output.
C6_OnlySelectedBranch ==
    (Done(Router) \/ Done(RouterDual))
    => /\ Range(exec.requested) = SelectedInputs
       /\ Sources(exec.result) = Range(exec.requested)
       /\ exec.ran = SelectedInputs
       /\ \A o \in Range(exec.result.outputs) :
             o.value = exec.upstream[o.from]

\* A dual router that took the fail branch while the pass chains would have
\* produced something else.
C6_Witness ==
    /\ Done(RouterDual) /\ ~exec.condition
    /\ exec.upstream["pass_input1"] # exec.upstream["fail_input1"]
    /\ exec.result.outputs[1].from = "fail_input1"

\* C7: ConditionalSplitter delivers its input on pass_output only when
\* condition is True and on fail_output only when it is False; the other
\* output carries nothing.
C7_OnlySelectedOutput ==
    Done(Splitter)
    => IF exec.condition
       THEN /\ exec.result.outputs[1] = exec.inputs["input"]
            /\ exec.result.outputs[2] = None
       ELSE /\ exec.result.outputs[1] = None
            /\ exec.result.outputs[2] = exec.inputs["input"]

\* C8: ConditionalStop.execute returns its input unchanged when condition is
\* True; when it is False it raises ValueError with stop_message and returns
\* no output.
C8_StopPassesOrRaises ==
    Done(Stop)
    => IF exec.condition
       THEN /\ exec.result.kind = "return"
            /\ Len(exec.result.outputs) = 1
            /\ exec.result.outputs[1].from = "input"
            /\ exec.result.outputs[1].value = exec.upstream["input"]
       ELSE /\ exec.result.kind = "raise"
            /\ exec.result.outputs = <<>>
            /\ exec.result.info =
                   "ValueError: ConditionalStop: " \o exec.stop_message

\* A stop node whose condition was False.
C8_Witness ==
    /\ Done(Stop) /\ ~exec.condition /\ exec.stop_message = "stop"
    /\ exec.result.kind = "raise"

(***************************************************************************)
(* Properties of LoadText.                                                 *)
(***************************************************************************)
\* The last call ended a block: it returned another file than the call
\* before it.
NextFileReturned ==
    thist.ok /\ thist.n >= 2 /\ thist.cur # thist.pcur

\* C9: with auto_increment = True, set_to = 0, a fixed set of files and
\* repeat_count = r, when the next file is returned the file before it has
\* been returned by exactly r consecutive calls.
C9_ExactlyRRepetitions ==
    NextFileReturned => thist.plen = thist.r

\* The last call of a run was the last repetition of the highest file.
AfterLastOfHighest ==
    /\ thist.ok /\ thist.wrap /\ thist.n >= 2
    /\ thist.pcur = MaxKey(thist.files)
    /\ thist.plen = thist.r

\* C10: with auto_increment = True, wrap_around = True and set_to = 0, the
\* call after the last repetition of the highest-index file returns the
\* lowest-index file, and the call after that one returns the lowest-index
\* file again or the file that follows it.
C10_WrapsToFirst ==
    /\ AfterLastOfHighest => thist.cur = MinKey(thist.files)
    /\ (thist.ok /\ thist.wrapped)
       => \/ thist.cur = MinKey(thist.files)
          \/ thist.cur = MinKey(thist.files \ {MinKey(thist.files)})

\* Two files, each returned twice, and the fifth call is back at the first.
C10_Witness ==
    /\ AfterLastOfHighest
    /\ thist.files = {1, 2} /\ thist.r = 2 /\ thist.n = 5
    /\ thist.cur = 1 /\ thist.pcur = 2

\* C11: once the cycle has begun (auto_increment = True, wrap_around = True,
\* set_to = 0, a fixed non-empty set of files), every matching file is
\* eventually loaded, contiguous indices or not.
C11_EveryFileEventuallyLoaded ==
    \A f \in TextIndexes :
        (cycle.on /\ f \in textFiles) ~> (f \in cycle.seen)

\* C12: a call with set_to = k > 0 where file k exists returns file k, with
\* auto_increment True and False, and leaves the repeat counter as a count
\* started afresh (1 when the file is to be repeated, else 0); a call with
\* set_to = 0 whose stored position is an existing file returns that file.
C12_SetToJumpsOrContinues ==
    [][(tcalls' = tcalls + 1 /\ textFiles' = textFiles)
       => /\ (loaded'.set_to > 0 /\ loaded'.set_to \in textFiles)
             => /\ loaded'.result.file = loaded'.set_to
                /\ repeat_counter' =
                      IF loaded'.auto_increment /\ loaded'.repeat_count > 1
                      THEN 1 ELSE 0
          /\ (loaded'.set_to = 0 /\ last_index \in textFiles)
             => loaded'.result.file = last_index]_vars

(***************************************************************************)
(* Properties of ListSelector.                                             *)
(***************************************************************************)
\* The lines of a text: the maximal runs of characters other than newline.
LineAt(s, i, j) ==
    /\ i <= j + 1
    /\ \A k \in i..j : s[k] # Newline
    /\ (i = 1 \/ s[i - 1] = Newline)
    /\ (j = Len(s) \/ s[j + 1] = Newline)

\* The start positions of the lines that are not blank, in order.
NonBlankStarts(s) ==
    SortedListing({i \in 1..Len(s) :
                      \E j \in i..Len(s) :
                          /\ LineAt(s, i, j)
                          /\ \E k \in i..j : s[k] # Space})

\* The line that starts at position i, without its surrounding spaces.
StrippedLineFrom(s, i) ==
    LET j == CHOOSE e \in i..Len(s) : LineAt(s, i, e)
        f == CHOOSE k \in i..j :
                 s[k] # Space /\ \A m \in i..(k - 1) : s[m] = Space
        l == CHOOSE k \in i..j :
                 s[k] # Space /\ \A m \in (k + 1)..j : s[m] = Space
    IN SubSeq(s, f, l)

NonBlankLines(s) ==
    LET starts == NonBlankStarts(s)
    IN [n \in 1..Len(starts) |-> StrippedLineFrom(s, starts[n])]

\* C13: with items the stripped non-blank lines of list: batch returns all
\* items (or [default] when there are none); otherwise index 0 returns
\* [default], 1 <= index <= len(items) returns [items[index-1]], a larger
\* index returns the last item, or [default] when there are no items; the
\* returned list is never empty.
C13_SelectByIndexOrBatch ==
    selection.called
    => LET items == NonBlankLines(selection.list)
           n == Len(items)
       IN /\ selection.value # <<>>
          /\ selection.value =
                IF selection.batch
                THEN (IF n = 0 THEN <<selection.default>> ELSE items)
                ELSE IF selection.index = 0 THEN <<selection.default>>
                ELSE IF selection.index <= n THEN <<items[selection.index]>>
                ELSE IF n > 0 THEN <<items[n]>>
                ELSE <<selection.default>>

\* The second of two items, each surrounded by spaces or blank lines.
C13_Witness ==
    /\ selection.called /\ ~selection.batch /\ selection.index = 2
    /\ selection.list = <<Space, "a", Newline, "b">>
    /\ selection.value = << <<"b">> >>

(***************************************************************************)
(* Properties of the text templates.                                       *)
(***************************************************************************)
\* The template read once from the left: each placeholder of the template
\* gives way to the value of its input, every other character is copied.
RECURSIVE SubstituteOnce(_, _)
SubstituteOnce(s, value) ==
    IF s = <<>> THEN <<>>
    ELSE IF \E l \in DOMAIN value : StartsWith(s, <<"[", l, "]">>)
         THEN value[s[2]] \o SubstituteOnce(SubSeq(s, 4, Len(s)), value)
         ELSE <<Head(s)>> \o SubstituteOnce(Tail(s), value)

\* C14: process_template returns the template with every [a], [b], [c], [d]
\* of the original template replaced by the value of that input and every
\* other character unchanged: inserted text is not substituted again; the
\* empty template gives the empty string.
C14_PlaceholdersOfTemplateReplaced ==
    tmpl.called
    => tmpl.output =
          SubstituteOnce(tmpl.template,
                         [l \in {"a", "b", "c", "d"} |->
                             IF l = "a" THEN tmpl.a
                             ELSE IF l = "b" THEN tmpl.b ELSE <<>>])

\* The text contains the token.
Contains(s, token) ==
    \E i \in 1..Len(s) : StartsWith(SubSeq(s, i, Len(s)), token)

BothCalled == tmpl.called /\ tmpl.calledExtended

\* C15 as claimed: the two variants recognise different token forms, so a
\* template that one of them substitutes is left as it is by the other.
C15_IncompatibleSyntaxes ==
    BothCalled
    => /\ tmpl.output # tmpl.template => tmpl.extended = tmpl.template
       /\ tmpl.extended # tmpl.template => tmpl.output = tmpl.template

\* C15 amended: both variants recognise the same token form [letter]; the
\* extended variant returns what TextTemplate returns whenever that result
\* holds none of the further tokens [e] .. [h].
C15_SameSyntaxExtended ==
    (BothCalled
        /\ \A l \in {"e", "f", "g", "h"} :
               ~Contains(tmpl.output, <<"[", l, "]">>))
    => tmpl.extended = tmpl.output

\* A template with the placeholder [a], substituted by both variants.
C15_Witness ==
    /\ BothCalled
    /\ tmpl.template = <<"[", "a", "]", "e">> /\ tmpl.a = <<"x">>
    /\ tmpl.output = <<"x", "e">> /\ tmpl.extended = <<"x", "e">>

(***************************************************************************)
(* Properties of ExtractGridPanel.                                         *)
(***************************************************************************)
\* One letter followed by a number.
LetterAndNumber(p) ==
    /\ Len(p) >= 2
    /\ p[1] \in Letters
    /\ \A i \in 2..Len(p) : p[i] \in Digits

\* C16: a panel string of one letter followed by a number selects column =
\* letter and row = number - 1; with both in range the node returns the crop
\* of that cell, its width and height and the upper-cased name; for every
\* other panel string it returns the input image with width 0 and height 0
\* and raises no error.  (Case and surrounding blanks are not counted as
\* part of the notation.)
C16_PanelNotation ==
    grid.called
    => LET p == Lower(Strip(grid.panel))
           col == OrdFromA(p[1])
           row == Decimal(Tail(p)) - 1
           r == grid.result
       IN IF /\ LetterAndNumber(p)
             /\ 0 <= col /\ col < grid.columns
             /\ 0 <= row /\ row < grid.rows
          THEN /\ r.kind = "return" /\ r.image = "cropped"
               /\ r.panel_name = Upper(p)
               /\ <<r.box.left, r.box.right>> =
                      CropSpan(grid.image.width, grid.columns, col,
                               grid.separator_width)
               /\ <<r.box.top, r.box.bottom>> =
                      CropSpan(grid.image.height, grid.rows, row,
                               grid.separator_width)
               /\ r.width = r.box.right - r.box.left
               /\ r.height = r.box.bottom - r.box.top
          ELSE /\ r.kind = "return" /\ r.image = "input"
               /\ r.width = 0 /\ r.height = 0

(***************************************************************************)
(* Properties of EditWithKrita.                                            *)
(***************************************************************************)
\* C17: edit_image with enabled = False returns the image unchanged, and
\* from its call to its return nothing is written to the edit directory, no
\* editor is launched, no notification is shown and no waiting takes place.
C17_DisabledPassesThrough ==
    (krita.pc # "idle" /\ ~krita.enabled)
    => /\ krita.pc = "done" /\ ~krita.raised
       /\ krita.result = krita.image
       /\ krita.dir = krita.before /\ krita.written = 0
       /\ krita.launched = 0
       /\ krita.notified = 0
       /\ krita.slept = 0

\* A disabled call with notify set, after an enabled call that left a file
\* in the edit directory; the sample is one that a PNG would not keep.
C17_Witness ==
    /\ krita.pc = "done" /\ ~krita.enabled /\ krita.notify
    /\ krita.calls = 2 /\ krita.dir = 1
    /\ krita.image = <<255>> /\ krita.result = <<255>>

(***************************************************************************)
(* Properties of SoraVideoGen.                                             *)
(***************************************************************************)
Sent(kind) == {i \in DOMAIN sora.http : sora.http[i].kind = kind}

\* C18: every status request is sent while the known status is queued or
\* in_progress, and the call leaves the loop only with another status; the
\* content request is sent once, after the last status request and with a
\* status that is neither running nor failed; a call whose job ended failed
\* raises RuntimeError with no content request and no file in the output
\* directory; a missing key or an empty prompt raises ValueError with no
\* request sent.
C18_JobProtocol ==
    /\ \A i \in Sent("GET status") : StillRunning(sora.http[i].at)
    /\ sora.pc \in {"download", "save"} => ~StillRunning(sora.status)
    /\ \A i \in Sent("GET content") :
          /\ ~StillRunning(sora.http[i].at)
          /\ sora.http[i].at # "failed"
          /\ \A j \in Sent("GET status") : j < i
    /\ Cardinality(Sent("GET content")) <= 1
    /\ sora.saved > 0 => Sent("GET content") # {}
    /\ sora.status = "failed"
       => /\ Sent("GET content") = {} /\ sora.saved = 0
          /\ sora.pc = "done" => sora.result = "RuntimeError"
    /\ (sora.pc # "idle" /\ (~sora.api_key \/ Strip(sora.prompt) = <<>>))
       => /\ sora.pc = "done" /\ sora.result = "ValueError"
          /\ sora.http = <<>>
    /\ sora.result = "ValueError"
       => (~sora.api_key \/ Strip(sora.prompt) = <<>>)

\* A job that was polled twice and then failed.
C18_Witness ==
    /\ sora.pc = "done" /\ sora.status = "failed"
    /\ sora.result = "RuntimeError"
    /\ StatusRequests(sora.http) = 2
    /\ sora.http[1].kind = "POST" /\ sora.http[3].at = "in_progress"

\* C19: once the job is created the call eventually returns or raises,
\* whatever statuses the service reports.
C19_EventuallyFinishes ==
    (sora.pc = "poll") ~> (sora.pc = "done")

====
